---- MODULE Spec2Model ----
(***************************************************************************)
(* Model of the merge-request title parser of src/src/main.rs.             *)
(*                                                                         *)
(* A text is a sequence of characters, each character a one-element        *)
(* string.  The cursor `pos` is the number of characters already consumed, *)
(* as winnow's `&mut &str` input is the not yet consumed suffix.  Every    *)
(* combinator is translated with winnow's semantics: a sequence (tuple,    *)
(* delimited, terminated) runs its parts left to right on the same cursor  *)
(* and stops at the first failure WITHOUT rewinding the cursor; `alt`      *)
(* rewinds before each alternative and takes the first that succeeds.      *)
(***************************************************************************)
EXTENDS Integers, Sequences, FiniteSets, TLC

\* ------------------------------------------------------------ bounds
\* longest run of blanks put in each whitespace slot of a generated title
MaxWs == 1
\* longest unconstrained text put after the kind token
MaxFree == 5

\* ------------------------------------------------------------ characters
LowerSeq == << "a", "b", "c", "d", "e", "f", "g", "h", "i", "j", "k", "l", "m",
               "n", "o", "p", "q", "r", "s", "t", "u", "v", "w", "x", "y", "z" >>
UpperSeq == << "A", "B", "C", "D", "E", "F", "G", "H", "I", "J", "K", "L", "M",
               "N", "O", "P", "Q", "R", "S", "T", "U", "V", "W", "X", "Y", "Z" >>
Letters == {LowerSeq[i] : i \in DOMAIN LowerSeq} \cup {UpperSeq[i] : i \in DOMAIN UpperSeq}
Digits == {"0", "1", "2", "3", "4", "5", "6", "7", "8", "9"}
\* the blanks winnow's space0 accepts
Blanks == {" ", "\t"}
Punct == {"(", ")", ":", "-", "_"}
\* a character outside ASCII (U+00E9), one element of the text
NonAscii == "U+00E9"
AsciiChars == Letters \cup Digits \cup Blanks \cup Punct

\* u8::to_ascii_lowercase, as Caseless compares
ToLower(c) ==
    IF \E i \in DOMAIN UpperSeq : UpperSeq[i] = c
    THEN LowerSeq[CHOOSE i \in DOMAIN UpperSeq : UpperSeq[i] = c]
    ELSE c

ToUpper(c) ==
    IF \E i \in DOMAIN LowerSeq : LowerSeq[i] = c
    THEN UpperSeq[CHOOSE i \in DOMAIN LowerSeq : LowerSeq[i] = c]
    ELSE c

\* char::is_ascii_alphanumeric
IsAsciiAlphanumeric(c) == c \in Letters \cup Digits

\* is_jira_id with '_' let through as well
is_jira_idUnderscore(c) == IsAsciiAlphanumeric(c) \/ c \in {"-", "_"}

\* fn is_jira_id
is_jira_id(c) == IsAsciiAlphanumeric(c) \/ c = "-"

\* char::is_ascii, the predicate of the title body
IsAscii(c) == c \in AsciiChars

\* ------------------------------------------------------------ combinators
\* winnow::ascii::space0 at cursor p: the cursor after the run of blanks
RECURSIVE space0(_, _)
space0(s, p) ==
    IF p < Len(s) /\ s[p + 1] \in Blanks THEN space0(s, p + 1) ELSE p

\* literal(lit) at cursor p matches
literal(lit, s, p) ==
    /\ p + Len(lit) <= Len(s)
    /\ \A i \in 1..Len(lit) : s[p + i] = lit[i]

\* literal(Caseless(lit)) at cursor p matches
literalCaseless(lit, s, p) ==
    /\ p + Len(lit) <= Len(s)
    /\ \A i \in 1..Len(lit) : ToLower(s[p + i]) = ToLower(lit[i])

\* take_while(.., is_jira_id) at cursor p: the cursor after the longest run
RECURSIVE takeWhileJiraId(_, _)
takeWhileJiraId(s, p) ==
    IF p < Len(s) /\ is_jira_id(s[p + 1]) THEN takeWhileJiraId(s, p + 1) ELSE p

\* take_while(.., |c| c.is_ascii()) at cursor p: the cursor after the longest run
RECURSIVE takeWhileAscii(_, _)
takeWhileAscii(s, p) ==
    IF p < Len(s) /\ IsAscii(s[p + 1]) THEN takeWhileAscii(s, p + 1) ELSE p

\* ------------------------------------------------------------ results
NoSlice == [lo |-> 0, hi |-> 0]
NoErr == [label |-> "", expected |-> "", offset |-> 0]

\* ContextError as .context(Label) .context(Expected) build it, with the
\* offset ParseError::new takes from the cursor at the failure
Failure(label, expected, p) ==
    [ok |-> FALSE, kind |-> "None", slice |-> NoSlice, pos |-> p,
     err |-> [label |-> label, expected |-> expected, offset |-> p]]

Success(kind, slice, p) ==
    [ok |-> TRUE, kind |-> kind, slice |-> slice, pos |-> p, err |-> NoErr]

\* the text of a slice [lo, hi) of s
Text(s, slice) == SubSeq(s, slice.lo + 1, slice.hi)

\* ------------------------------------------------------------ matchers
LitFix == << "f", "i", "x" >>
LitFeat == << "f", "e", "a", "t" >>
LitFeature == << "f", "e", "a", "t", "u", "r", "e" >>

\* pub fn parse_kind: alt tries fix, feat, feature in this order
parse_kind(s, p) ==
    IF literalCaseless(LitFix, s, p) THEN Success("Fix", NoSlice, p + Len(LitFix))
    ELSE IF literalCaseless(LitFeat, s, p) THEN Success("Feature", NoSlice, p + Len(LitFeat))
    ELSE IF literalCaseless(LitFeature, s, p) THEN Success("Feature", NoSlice, p + Len(LitFeature))
    ELSE Failure("kind", "fix or feat", p)

\* parse_jira_id without the closing literal(")")
parse_jira_idNoClose(s, p) ==
    LET p1 == space0(s, p)
        p2 == p1 + 1
        p3 == space0(s, p2)
        p4 == takeWhileJiraId(s, p3)
        p5 == space0(s, p4)
    IN  IF ~literal(<< "(" >>, s, p1) THEN Failure("jira id", "a valid jira id", p1)
        ELSE IF p4 = p3 THEN Failure("jira id", "a valid jira id", p3)
        ELSE Success("None", [lo |-> p3, hi |-> p4], p5)

\* parse_jira_id without the leading space0
parse_jira_idNoLead(s, p) ==
    LET p2 == p + 1
        p3 == space0(s, p2)
        p4 == takeWhileJiraId(s, p3)
        p5 == space0(s, p4)
    IN  IF ~literal(<< "(" >>, s, p) THEN Failure("jira id", "a valid jira id", p)
        ELSE IF p4 = p3 THEN Failure("jira id", "a valid jira id", p3)
        ELSE IF ~literal(<< ")" >>, s, p5) THEN Failure("jira id", "a valid jira id", p5)
        ELSE Success("None", [lo |-> p3, hi |-> p4], p5 + 1)

\* pub fn parse_jira_id
parse_jira_id(s, p) ==
    LET p1 == space0(s, p)
        p2 == p1 + 1
        p3 == space0(s, p2)
        p4 == takeWhileJiraId(s, p3)
        p5 == space0(s, p4)
    IN  IF ~literal(<< "(" >>, s, p1) THEN Failure("jira id", "a valid jira id", p1)
        ELSE IF p4 = p3 THEN Failure("jira id", "a valid jira id", p3)
        ELSE IF ~literal(<< ")" >>, s, p5) THEN Failure("jira id", "a valid jira id", p5)
        ELSE Success("None", [lo |-> p3, hi |-> p4], p5 + 1)

\* parse_title with take_while(0.., ..): an empty body is let through
parse_titleEmptyOk(s, p) ==
    LET p1 == space0(s, p)
        p2 == p1 + 1
        p3 == space0(s, p2)
        p4 == takeWhileAscii(s, p3)
        p5 == space0(s, p4)
    IN  IF ~literal(<< ":" >>, s, p1) THEN Failure("title", "any valid title", p1)
        ELSE Success("None", [lo |-> p3, hi |-> p4], p5)

\* parse_title that rewinds the cursor to where it was entered when it fails
parse_titleRewind(s, p) ==
    LET p1 == space0(s, p)
        p2 == p1 + 1
        p3 == space0(s, p2)
        p4 == takeWhileAscii(s, p3)
        p5 == space0(s, p4)
    IN  IF ~literal(<< ":" >>, s, p1) THEN Failure("title", "any valid title", p)
        ELSE IF p4 = p3 THEN Failure("title", "any valid title", p)
        ELSE Success("None", [lo |-> p3, hi |-> p4], p5)

\* pub fn parse_title
parse_title(s, p) ==
    LET p1 == space0(s, p)
        p2 == p1 + 1
        p3 == space0(s, p2)
        p4 == takeWhileAscii(s, p3)
        p5 == space0(s, p4)
    IN  IF ~literal(<< ":" >>, s, p1) THEN Failure("title", "any valid title", p1)
        ELSE IF p4 = p3 THEN Failure("title", "any valid title", p3)
        ELSE Success("None", [lo |-> p3, hi |-> p4], p5)

\* parse_end without the end-of-input demand (parse_next in place of parse)
parse_endNoEof(s, p) == Success("None", NoSlice, space0(s, p))

\* terminated(.., space0) followed by the eof that Parser::parse appends
parse_end(s, p) ==
    LET p1 == space0(s, p)
    IN  IF p1 = Len(s) THEN Success("None", NoSlice, p1)
        ELSE Failure("", "", p1)

\* ------------------------------------------------------------ inputs
\* Every input is one line of text, a kind token followed by the rest: it
\* holds no line terminator, so its whitespace is the blanks space0 takes.
KindOf(tok) ==
    IF Len(tok) = Len(LitFix) /\ literalCaseless(LitFix, tok, 0) THEN "Fix"
    ELSE IF Len(tok) = Len(LitFeat) /\ literalCaseless(LitFeat, tok, 0) THEN "Feature"
    ELSE IF Len(tok) = Len(LitFeature) /\ literalCaseless(LitFeature, tok, 0) THEN "Feature"
    ELSE "None"

\* every upper/lower-case spelling of a literal
CaseVariants(lit) ==
    {[i \in 1..Len(lit) |-> IF i \in S THEN ToUpper(lit[i]) ELSE lit[i]] :
        S \in SUBSET (1..Len(lit))}

KindLiterals == {LitFix, LitFeat, LitFeature}
BadKinds == { << >>, << "f", "e" >>, << "c", "h", "o", "r", "e" >>, << "f", "i" >> }

\* runs of blanks for one whitespace slot
WsRuns == {[i \in 1..k |-> " "] : k \in 0..MaxWs} \cup { << "\t" >> }
Ids == { << "A", "-", "1" >>, << "7" >> }
Titles == { << "x" >>, << "F", " ", "b", ")" >> }
Trails == { << >>, << NonAscii >> }

\* <kind><ws>(<ws><id><ws>)<ws>:<ws><title><ws><trail>
Compose(k, w, id, t, tr) ==
    k \o w[1] \o << "(" >> \o w[2] \o id \o w[3] \o << ")" >> \o w[4]
      \o << ":" >> \o w[5] \o t \o w[6] \o tr

\* what the generated title was composed of
Form(k, w, id, t, tr) ==
    [composed |-> TRUE, token |-> k, kind |-> KindOf(k), id |-> id, title |-> t,
     after |-> w[6], trail |-> tr]
NoForm ==
    [composed |-> FALSE, token |-> << >>, kind |-> "None", id |-> << >>, title |-> << >>,
     after |-> << >>, trail |-> << >>]

FreeChars == {" ", "(", ")", ":", "A", "_"}
FreeTails == UNION {[1..n -> FreeChars] : n \in 0..MaxFree}

\* ------------------------------------------------------------ state
VARIABLES
    input,      \* the text handed to parse_merge_request
    pos,        \* the cursor: characters consumed so far
    pc,         \* position of the run in the sequence of matchers
    kind,       \* Kind produced by parse_kind
    jira_id,    \* slice of input produced by parse_jira_id
    title,      \* slice of input produced by parse_title
    err,        \* the error of the failed matcher
    entry,      \* the cursor when the matcher that ran last was entered
    form,       \* how the input was composed (never read by the parser)
    trace       \* the values pc has taken, in order

vars == << input, pos, pc, kind, jira_id, title, err, entry, form, trace >>

Start(s, f) ==
    /\ input = s
    /\ form = f
    /\ pos = 0
    /\ pc = "Start"
    /\ kind = "None"
    /\ jira_id = NoSlice
    /\ title = NoSlice
    /\ err = NoErr
    /\ entry = 0
    /\ trace = << "Start" >>

Init ==
    \/ \E k \in KindLiterals, w \in [1..6 -> WsRuns], id \in Ids, t \in Titles, tr \in Trails :
          Start(Compose(k, w, id, t, tr), Form(k, w, id, t, tr))
    \/ \E lit \in KindLiterals \cup BadKinds, b \in {0, 1} :
          \E k \in CaseVariants(lit) :
             LET w == [i \in 1..6 |-> IF b = 1 /\ i \in {1, 5} THEN << " " >> ELSE << >>]
                 id == << "A", "-", "1" >>
                 t == << "x" >>
             IN  Start(Compose(k, w, id, t, << >>), Form(k, w, id, t, << >>))
    \/ \E tail \in FreeTails :
          Start(LitFix \o tail, NoForm)

Goto(next) ==
    /\ pc' = next
    /\ trace' = Append(trace, next)

\* (parse_kind, ..): the first element of the sequence
ParseKind ==
    /\ pc = "Start"
    /\ LET r == parse_kind(input, pos)
       IN  /\ entry' = pos
           /\ pos' = r.pos
           /\ IF r.ok
              THEN /\ kind' = r.kind
                   /\ Goto("KindParsed")
                   /\ UNCHANGED err
              ELSE /\ err' = r.err
                   /\ Goto("KindFailed")
                   /\ UNCHANGED kind
    /\ UNCHANGED << input, jira_id, title, form >>

\* ParseJiraId that records the error and goes on to the title all the same
ParseJiraIdLenient ==
    /\ pc = "KindParsed"
    /\ LET r == parse_jira_id(input, pos)
       IN  /\ entry' = pos
           /\ pos' = r.pos
           /\ err' = r.err
           /\ jira_id' = r.slice
           /\ Goto("IdentifierParsed")
    /\ UNCHANGED << input, kind, title, form >>

\* (.., parse_jira_id, ..): runs only when parse_kind returned Ok
ParseJiraId ==
    /\ pc = "KindParsed"
    /\ LET r == parse_jira_id(input, pos)
       IN  /\ entry' = pos
           /\ pos' = r.pos
           /\ IF r.ok
              THEN /\ jira_id' = r.slice
                   /\ Goto("IdentifierParsed")
                   /\ UNCHANGED err
              ELSE /\ err' = r.err
                   /\ Goto("IdentifierFailed")
                   /\ UNCHANGED jira_id
    /\ UNCHANGED << input, kind, title, form >>

\* (.., parse_title): runs only when parse_jira_id returned Ok
ParseTitle ==
    /\ pc = "IdentifierParsed"
    /\ LET r == parse_title(input, pos)
       IN  /\ entry' = pos
           /\ pos' = r.pos
           /\ IF r.ok
              THEN /\ title' = r.slice
                   /\ Goto("TitleParsed")
                   /\ UNCHANGED err
              ELSE /\ err' = r.err
                   /\ Goto("TitleFailed")
                   /\ UNCHANGED title
    /\ UNCHANGED << input, kind, jira_id, form >>

\* terminated(.., space0) and the end-of-input demand of Parser::parse
ParseEnd ==
    /\ pc = "TitleParsed"
    /\ LET r == parse_end(input, pos)
       IN  /\ entry' = pos
           /\ pos' = r.pos
           /\ IF r.ok
              THEN /\ Goto("Done")
                   /\ UNCHANGED err
              ELSE /\ err' = r.err
                   /\ Goto("TrailingFailed")
    /\ UNCHANGED << input, kind, jira_id, title, form >>

Next == ParseKind \/ ParseJiraId \/ ParseTitle \/ ParseEnd

Spec == Init /\ [][Next]_vars

\* pub fn parse_merge_request, as one function of the text
parse_merge_request(s) ==
    LET k == parse_kind(s, 0)
        j == parse_jira_id(s, k.pos)
        t == parse_title(s, j.pos)
        e == parse_end(s, t.pos)
    IN  IF ~k.ok THEN [ok |-> FALSE, kind |-> "None", jira_id |-> << >>, title |-> << >>, err |-> k.err]
        ELSE IF ~j.ok THEN [ok |-> FALSE, kind |-> "None", jira_id |-> << >>, title |-> << >>, err |-> j.err]
        ELSE IF ~t.ok THEN [ok |-> FALSE, kind |-> "None", jira_id |-> << >>, title |-> << >>, err |-> t.err]
        ELSE IF ~e.ok THEN [ok |-> FALSE, kind |-> "None", jira_id |-> << >>, title |-> << >>, err |-> e.err]
        ELSE [ok |-> TRUE, kind |-> k.kind, jira_id |-> Text(s, j.slice),
              title |-> Text(s, t.slice), err |-> NoErr]

TypeOK ==
    /\ pos \in 0..Len(input)
    /\ pc \in {"Start", "KindParsed", "IdentifierParsed", "TitleParsed", "Done",
               "KindFailed", "IdentifierFailed", "TitleFailed", "TrailingFailed"}
    /\ kind \in {"None", "Fix", "Feature"}

\* ------------------------------------------------------------ vocabulary
Pipeline == << "Start", "KindParsed", "IdentifierParsed", "TitleParsed", "Done" >>
FailOf == << "KindFailed", "IdentifierFailed", "TitleFailed", "TrailingFailed" >>
Failed == {FailOf[i] : i \in DOMAIN FailOf}
Terminal == Failed \cup {"Done"}
AfterKind == {"KindParsed", "IdentifierParsed", "TitleParsed", "Done",
              "IdentifierFailed", "TitleFailed", "TrailingFailed"}
AfterTitle == {"TitleParsed", "Done", "TrailingFailed"}

AllBlank(s, lo, hi) == \A i \in (lo + 1)..hi : s[i] \in Blanks

\* the input is of the form of C1: composed of a recognised kind literal, an
\* identifier and a title, with nothing but blanks after the title
ValidForm == form.composed /\ form.kind # "None" /\ form.trail = << >>

\* ------------------------------------------------------------ C1
\* C1: every input <kind><ws>(<ws><id><ws>)<ws>:<ws><title><ws> with a
\* recognised kind literal parses successfully to exactly that kind, that id
\* and that title, whatever the blanks in the six slots.
C1_ExactFields ==
    ValidForm =>
        /\ pc \notin Failed
        /\ pc = "Done" =>
              /\ kind = form.kind
              /\ Text(input, jira_id) = form.id
              /\ Text(input, title) = form.title

\* ------------------------------------------------------------ C2
\* C2: every upper/lower-case spelling of fix, feat and feature is recognised
\* as its kind, the title parses, and parse_kind leaves the cursor behind the
\* whole literal (7 characters for feature).
C2_CaselessKinds ==
    ValidForm =>
        /\ pc \notin Failed
        /\ pc \in AfterKind => kind = form.kind
        /\ pc = "KindParsed" => pos = Len(form.token)

\* ------------------------------------------------------------ C3
\* C3: the title returned by parse_title never ends with a whitespace
\* character.
C3_TitleTrimmed ==
    pc \in AfterTitle =>
        /\ title.hi > title.lo
        /\ input[title.hi] \notin Blanks

\* ------------------------------------------------------------ C4
\* C4: once kind, identifier and title have been matched, text that is left
\* and is not whitespace makes the parse fail with the error that carries no
\* rule label, positioned at the unconsumed text; a successful parse has its
\* cursor at the end of the input and nothing but whitespace after the title.
C4_TrailingInput ==
    /\ pc = "Done" =>
          /\ pos = Len(input)
          /\ AllBlank(input, title.hi, Len(input))
    /\ pc = "TrailingFailed" =>
          /\ err = [label |-> "", expected |-> "", offset |-> pos]
          /\ pos < Len(input)
          /\ input[pos + 1] \notin Blanks
          /\ AllBlank(input, title.hi, pos)
    /\ (pc \in {"Done", "TrailingFailed"} /\ form.composed /\ form.trail # << >>) =>
          /\ pc = "TrailingFailed"
          /\ SubSeq(input, pos + 1, Len(input)) = form.trail

\* a composed title followed by non-whitespace text has been rejected
C4_Witness ==
    /\ pc = "TrailingFailed"
    /\ form.composed
    /\ form.trail # << >>
    /\ pos = Len(input) - Len(form.trail)

\* ------------------------------------------------------------ C5
\* the text from cursor e on starts with <ws>(<ws><id><ws>), id a non-empty
\* run of ASCII alphanumerics and hyphens
HasIdentifierAt(s, e) ==
    \E a \in e..(Len(s) - 1) :
        /\ AllBlank(s, e, a)
        /\ s[a + 1] = "("
        /\ \E b \in (a + 1)..(Len(s) - 1) :
              /\ AllBlank(s, a + 1, b)
              /\ \E c \in (b + 1)..(Len(s) - 1) :
                    /\ \A i \in (b + 1)..c : IsAsciiAlphanumeric(s[i]) \/ s[i] = "-"
                    /\ \E d \in c..(Len(s) - 1) :
                          /\ AllBlank(s, c, d)
                          /\ s[d + 1] = ")"

\* the first character after the blanks at cursor e is not '('
OpenParenAbsent(s, e) ==
    \E a \in e..Len(s) : AllBlank(s, e, a) /\ (a = Len(s) \/ s[a + 1] \notin Blanks \cup {"("})

\* '(' , nothing but blanks, ')'
EmptyParens(s, e) ==
    \E a \in e..(Len(s) - 1) :
        /\ AllBlank(s, e, a)
        /\ s[a + 1] = "("
        /\ \E d \in (a + 1)..(Len(s) - 1) : AllBlank(s, a + 1, d) /\ s[d + 1] = ")"

\* '(' , an identifier run, then a character that is neither blank nor ')'
BadCharAfterId(s, e) ==
    \E a \in e..(Len(s) - 1) :
        /\ AllBlank(s, e, a)
        /\ s[a + 1] = "("
        /\ \E b \in (a + 1)..(Len(s) - 1) :
              /\ AllBlank(s, a + 1, b)
              /\ \E c \in (b + 1)..(Len(s) - 1) :
                    /\ \A i \in (b + 1)..c : IsAsciiAlphanumeric(s[i]) \/ s[i] = "-"
                    /\ ~(IsAsciiAlphanumeric(s[c + 1]) \/ s[c + 1] = "-")
                    /\ s[c + 1] \notin Blanks \cup {")"}

\* '(' and blanks, then a character that cannot start an identifier, or the end
EmptyIdBody(s, e) ==
    \E a \in e..(Len(s) - 1) :
        /\ AllBlank(s, e, a)
        /\ s[a + 1] = "("
        /\ \E b \in (a + 1)..Len(s) :
              /\ AllBlank(s, a + 1, b)
              /\ (b = Len(s) \/ s[b + 1] \notin Blanks \cup Letters \cup Digits \cup {"-"})

\* '(' , an identifier run and blanks, then a character other than ')', or the end
CloseParenMissing(s, e) ==
    \E a \in e..(Len(s) - 1) :
        /\ AllBlank(s, e, a)
        /\ s[a + 1] = "("
        /\ \E b \in (a + 1)..(Len(s) - 1) :
              /\ AllBlank(s, a + 1, b)
              /\ \E c \in (b + 1)..Len(s) :
                    /\ \A i \in (b + 1)..c : IsAsciiAlphanumeric(s[i]) \/ s[i] = "-"
                    /\ \E d \in c..Len(s) :
                          /\ AllBlank(s, c, d)
                          /\ \/ d = Len(s)
                             \/ /\ s[d + 1] \notin Blanks \cup {")"}
                                /\ d = c => s[d + 1] \notin Letters \cup Digits \cup {"-"}

\* no ')' anywhere behind cursor e
CloseParenAbsent(s, e) == \A i \in (e + 1)..Len(s) : s[i] # ")"

\* C5: after a recognised kind token, parse_jira_id fails, with the label
\* "jira id" and the expectation "a valid jira id", when the opening
\* parenthesis is absent, the parentheses hold nothing or only whitespace, the
\* identifier run is followed by a character that is neither whitespace nor
\* ')', or the closing parenthesis is absent; it fails exactly when the text
\* at its cursor does not start with <ws>(<ws><id><ws>), and no other
\* matcher reports that label.
C5_MissingIdentifier ==
    /\ pc \in {"IdentifierParsed", "IdentifierFailed"} =>
          /\ (pc = "IdentifierFailed") <=> ~HasIdentifierAt(input, entry)
          /\ ( \/ OpenParenAbsent(input, entry)
               \/ EmptyParens(input, entry)
               \/ BadCharAfterId(input, entry)
               \/ CloseParenAbsent(input, entry) ) => pc = "IdentifierFailed"
          /\ pc = "IdentifierFailed" <=>
               \/ OpenParenAbsent(input, entry)
               \/ EmptyIdBody(input, entry)
               \/ CloseParenMissing(input, entry)
    /\ (pc = "IdentifierFailed") <=>
          (err.label = "jira id" /\ err.expected = "a valid jira id")

\* parse_jira_id has failed on parentheses that hold only whitespace
C5_Witness ==
    /\ pc = "IdentifierFailed"
    /\ EmptyParens(input, entry)
    /\ pos > entry + 1

\* ------------------------------------------------------------ C6
\* the text from cursor e on starts with <ws>:<ws> and a character of the
\* title body that is not a blank
HasTitleAt(s, e) ==
    \E a \in e..(Len(s) - 1) :
        /\ AllBlank(s, e, a)
        /\ s[a + 1] = ":"
        /\ \E b \in (a + 1)..(Len(s) - 1) :
              /\ AllBlank(s, a + 1, b)
              /\ s[b + 1] \in AsciiChars \ Blanks

\* the first character after the blanks at cursor e is not ':'
ColonAbsent(s, e) ==
    \E a \in e..Len(s) : AllBlank(s, e, a) /\ (a = Len(s) \/ s[a + 1] \notin Blanks \cup {":"})

\* ':' and nothing but blanks up to the end of the text
OnlyBlanksAfterColon(s, e) ==
    \E a \in e..(Len(s) - 1) :
        /\ AllBlank(s, e, a)
        /\ s[a + 1] = ":"
        /\ AllBlank(s, a + 1, Len(s))

\* C6: after kind and identifier, parse_title fails, with the label "title"
\* and the expectation "any valid title", whenever the ':' is absent or
\* nothing but whitespace follows it; no successful parse has a title that is
\* empty or all whitespace.
C6_MissingTitle ==
    /\ pc \in {"TitleParsed", "TitleFailed"} =>
          /\ (pc = "TitleFailed") <=> ~HasTitleAt(input, entry)
          /\ (ColonAbsent(input, entry) \/ OnlyBlanksAfterColon(input, entry))
                => pc = "TitleFailed"
    /\ (pc = "TitleFailed") <=>
          (err.label = "title" /\ err.expected = "any valid title")
    /\ pc \in AfterTitle =>
          /\ title.lo < title.hi
          /\ \E i \in (title.lo + 1)..title.hi : input[i] \notin Blanks

\* parse_title has failed on a ':' followed only by whitespace
C6_Witness ==
    /\ pc = "TitleFailed"
    /\ OnlyBlanksAfterColon(input, entry)
    /\ pos = Len(input)
    /\ input[pos] \in Blanks

\* ------------------------------------------------------------ C7
\* C7: in every successful result the identifier is a non-empty slice of the
\* input of ASCII alphanumerics and '-', the title a non-empty slice of ASCII
\* characters, and the identifier lies wholly before the title.
C7_ResultFields ==
    pc = "Done" =>
        /\ 0 <= jira_id.lo /\ jira_id.lo < jira_id.hi
        /\ jira_id.hi <= title.lo
        /\ title.lo < title.hi /\ title.hi <= Len(input)
        /\ \A i \in (jira_id.lo + 1)..jira_id.hi :
              input[i] \in Letters \cup Digits \cup {"-"}
        /\ \A i \in (title.lo + 1)..title.hi : input[i] \in AsciiChars

\* a parse has succeeded with an identifier holding '-' and a title of
\* several characters
C7_Witness ==
    /\ pc = "Done"
    /\ \E i \in (jira_id.lo + 1)..jira_id.hi : input[i] = "-"
    /\ title.hi > title.lo + 1

\* ------------------------------------------------------------ C8
\* the literal a kind is written with in the canonical text
KindText(k) == IF k = "Fix" THEN LitFix ELSE LitFeat

\* "<kind> (<id>): <title>"
Render(k, id, t) ==
    KindText(k) \o << " ", "(" >> \o id \o << ")", ":", " " >> \o t

\* C8: the canonical text "<kind> (<id>): <title>" of a successful result
\* parses successfully to the same kind, id and title.
C8_ReparseSame ==
    pc = "Done" =>
        LET id == Text(input, jira_id)
            t == Text(input, title)
            again == parse_merge_request(Render(kind, id, t))
        IN  /\ again.ok
            /\ again.kind = kind
            /\ again.jira_id = id
            /\ again.title = t

\* a text that is not in canonical form has parsed to a Feature
C8_Witness ==
    /\ pc = "Done"
    /\ kind = "Feature"
    /\ input # Render(kind, Text(input, jira_id), Text(input, title))

\* ------------------------------------------------------------ C9
\* the error each failure state carries
ErrOf(state) ==
    IF state = "KindFailed" THEN [label |-> "kind", expected |-> "fix or feat"]
    ELSE IF state = "IdentifierFailed" THEN [label |-> "jira id", expected |-> "a valid jira id"]
    ELSE IF state = "TitleFailed" THEN [label |-> "title", expected |-> "any valid title"]
    ELSE [label |-> "", expected |-> ""]

PipelineShape ==
    /\ pc = trace[Len(trace)]
    /\ Len(trace) <= Len(Pipeline)
    /\ \A i \in 1..Len(trace) :
          \/ i <= Len(Pipeline) /\ trace[i] = Pipeline[i]
          \/ i = Len(trace) /\ i > 1 /\ i <= Len(Pipeline) /\ trace[i] = FailOf[i - 1]
    /\ \A i, j \in 1..Len(trace) : i # j => trace[i] # trace[j]
    /\ IF pc \in Failed
       THEN /\ err.label = ErrOf(pc).label
            /\ err.expected = ErrOf(pc).expected
            /\ err.offset = pos
       ELSE err = NoErr

PipelineStep ==
    /\ pc \notin Terminal
    /\ pc' # pc
    /\ input' = input
    /\ pos' >= pos
    /\ pc # "Start" => kind' = kind
    /\ pc # "KindParsed" => jira_id' = jira_id
    /\ pc # "IdentifierParsed" => title' = title
    /\ pc' \notin Failed => err' = NoErr

\* C9: a run goes Start, KindParsed, IdentifierParsed, TitleParsed, Done in
\* this order; a matcher runs only after the one before it succeeded; the
\* kind, once chosen, is never changed; the first matcher to fail ends the run
\* in its own failure state with its own error; no state is entered twice and
\* no step leaves a terminal state.
C9_LinearPipeline == [](PipelineShape) /\ [][PipelineStep]_vars

\* a run has ended in the failure state of the third matcher
C9_Witness ==
    /\ pc = "TitleFailed"
    /\ trace = << "Start", "KindParsed", "IdentifierParsed", "TitleFailed" >>
    /\ kind = "Fix"

\* ------------------------------------------------------------ C10
Matched == {"KindParsed", "IdentifierParsed", "TitleParsed"}

\* C10 as stated: a matcher that fails leaves the cursor where it was when
\* the matcher was entered.
C10_FailureConsumesNothing ==
    pc \in {"KindFailed", "IdentifierFailed", "TitleFailed"} => pos = entry

\* C10 amended: a matcher that succeeds has consumed a non-empty prefix of
\* the rest; parse_kind fails without consuming; parse_jira_id and
\* parse_title fail with the cursor at the character where matching stopped,
\* behind the blanks, the '(' or ':' and the identifier characters they had
\* matched, and that cursor is the offset of the error.
C10_FailureStopsAtFault ==
    /\ pc \in Matched => entry < pos /\ pos <= Len(input)
    /\ pc = "KindFailed" => pos = entry
    /\ pc = "IdentifierFailed" =>
          /\ entry <= pos /\ pos <= Len(input)
          /\ err.offset = pos
          /\ pos = Len(input) \/ input[pos + 1] \notin Blanks
          /\ \A i \in (entry + 1)..pos : input[i] \in Blanks \cup Letters \cup Digits \cup {"-", "("}
          /\ Cardinality({i \in (entry + 1)..pos : input[i] = "("}) <= 1
          /\ (\A i \in (entry + 1)..pos : input[i] # "(") =>
                (pos = Len(input) \/ input[pos + 1] # "(")
    /\ pc = "TitleFailed" =>
          /\ entry <= pos /\ pos <= Len(input)
          /\ err.offset = pos
          /\ pos = Len(input) \/ input[pos + 1] \notin Blanks
          /\ \A i \in (entry + 1)..pos : input[i] \in Blanks \cup {":"}
          /\ Cardinality({i \in (entry + 1)..pos : input[i] = ":"}) <= 1
          /\ (\A i \in (entry + 1)..pos : input[i] # ":") =>
                (pos = Len(input) \/ input[pos + 1] # ":")

\* parse_title has failed behind a ':' it had matched
C10_Witness ==
    /\ pc = "TitleFailed"
    /\ pos > entry
    /\ \E i \in (entry + 1)..pos : input[i] = ":"

====
